---- MODULE Spec2Model ----
(***************************************************************************)
(* A model of robust_web_fetcher.RobustWebFetcher: the per-domain rate     *)
(* limiter, the three transport engines, the mirror URL generator, the     *)
(* Wayback resolver and the fetch orchestrator.                            *)
(*                                                                         *)
(* Strings are modelled as sequences of tokens (a token is a run of        *)
(* characters the code never splits), so that the code's substring tests,  *)
(* replacements and concatenations are computed, not assumed.  None is the *)
(* empty sequence; no URL, path or content type of the model is empty.     *)
(* Time is counted in ticks of half a second.                              *)
(*                                                                         *)
(* Spec is one fetch call on a freshly constructed fetcher; the file at    *)
(* output_path may exist before the call.  What the network, the tools and *)
(* the archive service answer is chosen freely at every request.  Time has *)
(* no influence on what fetch does, so Spec lets no time pass but the      *)
(* sleeps of _rate_limit; SpecRate is any sequence of _rate_limit calls    *)
(* with time passing freely between and within them, SpecName is any       *)
(* sequence of filename_from_url calls, SpecArxiv is the first engine call *)
(* of a fetch on a preprint URL, and SpecThreads is two threads calling    *)
(* _rate_limit for one domain on a shared fetcher.                         *)
(***************************************************************************)
EXTENDS Integers, Sequences, FiniteSets, TLC

VARIABLES
    HAS_REQUESTS,       \* module flag set by the import at load time
    has_curl,           \* shutil.which("curl") finds the tool
    has_wget,           \* shutil.which("wget") finds the tool
    now,                \* the wall clock, time.time()
    last_request_time,  \* self.last_request_time: domain -> timestamp
    rl,                 \* the last _rate_limit call: what it read, slept and recorded
    file,               \* the file at output_path
    pc,                 \* position of the running fetch call
    url,                \* fetch's argument
    try_mirrors,        \* fetch's argument
    try_wayback,        \* fetch's argument
    attempted_urls,     \* fetch's local list
    eng,                \* index in the engine list of the running loop
    mirrors,            \* mirrors[:3] of the running fetch
    mi,                 \* index of the mirror being tried
    cur,                \* url argument of the running _try_requests frame
    depth,              \* recursion depth of _try_requests (0: called by fetch or _try_wayback)
    snapshot_url,       \* _try_wayback's local snapshot_url
    result,             \* the value fetch returned
    wb_ret,             \* the tuple _try_wayback returned
    log,                \* every outbound request of the fetch call, in order
    responses,          \* what came back to each request of the engine call running or last run
    tried,              \* every engine call of the fetch call that returned, in order
    engine_detail,      \* the second component of what the last engine call returned
    name_url,           \* filename_from_url's argument url
    preferred_ext,      \* filename_from_url's argument preferred_ext
    safe_name,          \* the value filename_from_url returned
    name_pc,            \* whether filename_from_url was called, returned or raised
    thread,             \* per thread: where its _rate_limit call stands and what it read
    overlapped          \* two _rate_limit calls of different threads ran at the same time

vars == <<HAS_REQUESTS, has_curl, has_wget, now, last_request_time, rl, file, pc,
          url, try_mirrors, try_wayback, attempted_urls, eng, mirrors, mi, cur,
          depth, snapshot_url, result, wb_ret, log, responses,
          tried, engine_detail, name_url, preferred_ext, safe_name, name_pc,
          thread, overlapped>>

----------------------------------------------------------------------------
(* Bounds of the model *)

\* the number of _rate_limit calls one thread makes
MaxCalls == 2

\* the clock value up to which _rate_limit calls begin
MaxClock == 8
\* longest time (ticks) that passes between two clock readings without a sleep
MaxPre == 3
\* longest time (ticks) by which time.sleep overshoots
MaxOver == 1

----------------------------------------------------------------------------
(* Python str operations on token sequences *)

None == <<>>

\* s[i:] for a 1-based i
Drop(s, i) == SubSeq(s, i, Len(s))

\* sub in s
Contains(s, sub) ==
    \E i \in 1..(Len(s) - Len(sub) + 1) : SubSeq(s, i, i + Len(sub) - 1) = sub

\* s.startswith(pre)
StartsWith(s, pre) == Len(pre) <= Len(s) /\ SubSeq(s, 1, Len(pre)) = pre

\* s.endswith(suf)
EndsWith(s, suf) ==
    Len(suf) <= Len(s) /\ SubSeq(s, Len(s) - Len(suf) + 1, Len(s)) = suf

\* s.rstrip(tok)
RECURSIVE RStrip(_, _)
RStrip(s, tok) ==
    IF s # <<>> /\ s[Len(s)] = tok THEN RStrip(SubSeq(s, 1, Len(s) - 1), tok) ELSE s

\* s.replace(old, new): every non-overlapping occurrence, left to right
RECURSIVE Replace(_, _, _)
Replace(s, old, new) ==
    IF s = <<>> \/ old = <<>> THEN s
    ELSE IF StartsWith(s, old) THEN new \o Replace(Drop(s, Len(old) + 1), old, new)
    ELSE <<s[1]>> \o Replace(Drop(s, 2), old, new)

\* the tokens of the model that hold upper-case letters
LowerTok(t) ==
    CASE t = "DNI.GOV" -> "dni.gov"
      [] t = ".PDF" -> ".pdf"
      [] OTHER -> t

\* s.lower()
Lower(s) == [i \in 1..Len(s) |-> LowerTok(s[i])]

----------------------------------------------------------------------------
(* urllib.parse.urlparse on token sequences: token 1 is the scheme with    *)
(* its "://", the netloc runs to the first "/" or to the query, the path   *)
(* from there to the query, and a query is one token that begins with "?". *)

\* the query strings of the model
QueryTokens == {"?x=1"}

QueryStart(u) ==
    IF \E i \in 2..Len(u) : u[i] \in QueryTokens
    THEN CHOOSE i \in 2..Len(u) :
            u[i] \in QueryTokens /\ \A j \in 2..(i - 1) : u[j] \notin QueryTokens
    ELSE Len(u) + 1

PathStart(u) ==
    IF \E i \in 2..(QueryStart(u) - 1) : u[i] = "/"
    THEN CHOOSE i \in 2..(QueryStart(u) - 1) : u[i] = "/" /\ \A j \in 2..(i - 1) : u[j] # "/"
    ELSE QueryStart(u)

Scheme(u) == IF u = <<>> THEN <<>> ELSE <<u[1]>>
Netloc(u) == SubSeq(u, 2, PathStart(u) - 1)
Path(u) == SubSeq(u, PathStart(u), QueryStart(u) - 1)

\* urlparse raises ValueError("Invalid IPv6 URL") on unbalanced brackets in the netloc
UrlparseRaises(u) ==
    LET n == Netloc(u)
    IN  (Contains(n, <<"[">>) /\ ~Contains(n, <<"]">>))
        \/ (Contains(n, <<"]">>) /\ ~Contains(n, <<"[">>))

----------------------------------------------------------------------------
(* Configuration *)

\* self.rate_limit_delay: the constructor's default of 1.5 s, in ticks
rate_limit_delay == 3

MIRROR_DOMAINS == <<
    [base |-> <<"dni.gov">>,
     mirror_list |-> << <<"defense.gov">>, <<"aaro.mil">>, <<"intelligence.gov">> >>],
    [base |-> <<"defense.gov">>,
     mirror_list |-> << <<"dni.gov">>, <<"aaro.mil">> >>],
    [base |-> <<"aaro.mil">>,
     mirror_list |-> << <<"defense.gov">>, <<"dni.gov">> >>],
    [base |-> <<"nasa.gov">>,
     mirror_list |-> << <<"science.", "nasa.gov">>, <<"ntrs.", "nasa.gov">> >>],
    [base |-> <<"arxiv.org">>,
     mirror_list |-> << <<"export.", "arxiv.org">>,
                        <<"arxiv-export-lb.library.cornell.edu">> >>] >>

\* DownloadStatus
SUCCESS == "success"
FAILED_403 == "failed_403"
FAILED_404 == "failed_404"
FAILED_TIMEOUT == "failed_timeout"
FAILED_NETWORK == "failed_network"
FAILED_MIRROR == "failed_all_mirrors"
WAYBACK_SUCCESS == "wayback_success"

DownloadStatus == {SUCCESS, FAILED_403, FAILED_404, FAILED_TIMEOUT, FAILED_NETWORK,
                   FAILED_MIRROR, WAYBACK_SUCCESS}

\* DownloadResult(...)
DownloadResult(status, local_path, content_type, source_url, attempted, wayback_url, error_msg) ==
    [status |-> status, local_path |-> local_path, content_type |-> content_type,
     source_url |-> source_url, attempted_urls |-> attempted,
     wayback_url |-> wayback_url, error_msg |-> error_msg]

\* no DownloadResult has been returned
NoResult == [status |-> "none"]

----------------------------------------------------------------------------
(* _generate_mirror_urls *)

RECURSIVE Flatten(_)
Flatten(ss) == IF ss = <<>> THEN <<>> ELSE ss[1] \o Flatten(Tail(ss))

\* the candidates the loop body appends for one mirror domain
MirrorCandidates(u, mirror) ==
    LET domain == Lower(Netloc(u))
        path == Path(u)
        alt_paths == << Replace(path, <<"/", "newsroom", "/">>, <<"/", "library", "/">>),
                        Replace(path, <<"/", "reports", "/">>, <<"/", "publications", "/">>),
                        Replace(path, <<"/", "documents", "/">>, <<"/", "files", "/">>) >>
    IN  << Replace(u, domain, mirror) >>
        \o (IF Contains(path, <<"reports">>) \/ Contains(path, <<"publications">>)
            THEN [i \in 1..3 |-> Scheme(u) \o mirror \o alt_paths[i]]
            ELSE <<>>)

\* the candidates of one entry of MIRROR_DOMAINS
EntryCandidates(u, entry) ==
    IF Contains(Lower(Netloc(u)), entry.base)
    THEN Flatten([i \in 1..Len(entry.mirror_list) |->
                     MirrorCandidates(u, entry.mirror_list[i])])
    ELSE <<>>

_generate_mirror_urls(u) ==
    Flatten([k \in 1..Len(MIRROR_DOMAINS) |-> EntryCandidates(u, MIRROR_DOMAINS[k])])

\* FirstN without the cut
FirstN_All(s, n) == s

\* mirrors[:3]
MirrorLimit == 3
FirstN(s, n) == SubSeq(s, 1, IF Len(s) < n THEN Len(s) ELSE n)

----------------------------------------------------------------------------
(* _rate_limit *)

\* SleepFor with the sleep one tick short
SleepFor_Short(domain, t0) ==
    IF domain \in DOMAIN last_request_time
    THEN LET elapsed == t0 - last_request_time[domain]
         IN  IF elapsed < rate_limit_delay - 1 THEN rate_limit_delay - elapsed - 1 ELSE 0
    ELSE 0

\* time.sleep's argument: lines 96-99
SleepFor(domain, t0) ==
    IF domain \in DOMAIN last_request_time
    THEN LET elapsed == t0 - last_request_time[domain]
         IN  IF elapsed < rate_limit_delay THEN rate_limit_delay - elapsed ELSE 0
    ELSE 0

\* Recorded with the entry of a domain already in the map left as it is
Recorded_KeepOld(domain, t1) ==
    [d \in (DOMAIN last_request_time) \cup {domain} |->
        IF d \in DOMAIN last_request_time THEN last_request_time[d] ELSE t1]

\* the map after line 100 stored t1 for domain
Recorded(domain, t1) ==
    [d \in (DOMAIN last_request_time) \cup {domain} |->
        IF d = domain THEN t1 ELSE last_request_time[d]]

\* pre: the time that passed since the clock was last read; over: by how much
\* time.sleep overshoots when it sleeps
_rate_limit(domain, pre, over) ==
    LET t0 == now + pre
        sleep == SleepFor(domain, t0)
        t1 == t0 + sleep + (IF sleep > 0 THEN over ELSE 0)
    IN  /\ now' = t1
        /\ last_request_time' = Recorded(domain, t1)
        /\ rl' = [domain |-> domain, entry |-> t0, slept |-> sleep, release |-> t1,
                  prev |-> IF domain \in DOMAIN last_request_time
                           THEN last_request_time[domain] ELSE -1]

----------------------------------------------------------------------------
(* The inputs of the model *)

\* the URLs fetch is called with: a preprint abstract page, two reports on
\* mirrored domains (one under /newsroom/), an unmirrored page, a mirrored
\* domain written in upper case with a query, and a string urlparse rejects
ArxivAbs == <<"https://", "arxiv.org", "/", "abs", "/", "2301.00001">>
DniReport == <<"https://", "www.", "dni.gov", "/", "newsroom", "/", "reports", "/", "r1">>
DefReport == <<"https://", "defense.gov", "/", "reports", "/", "r1">>
Plain == <<"https://", "example.com", "/", "a">>
UpperDni == <<"https://", "DNI.GOV", "/", "reports", "/", "r1", "?x=1">>
Malformed == <<"http://", "[", "bad">>

Urls == {ArxivAbs, DniReport, DefReport, Plain, UpperDni, Malformed}

\* fetch's output_path argument
output_path == <<"out.bin">>

\* the snapshot URLs the availability service may name for u
Snapshots(u) ==
    { <<"http://", "web.archive.org", "/", "web", "/", "2020", "/">> \o u,
      <<"http://", "[", "snap">> }

\* the file at output_path: whether it exists, holds bytes, holds a whole
\* response body, and which request of the running fetch wrote it (0: none,
\* it was there before)
Absent == [exists |-> FALSE, nonempty |-> FALSE, complete |-> FALSE, by |-> 0]
OldFile == [exists |-> TRUE, nonempty |-> TRUE, complete |-> TRUE, by |-> 0]
Written(n) == [exists |-> TRUE, nonempty |-> TRUE, complete |-> TRUE, by |-> n]
Partial(n) == [exists |-> TRUE, nonempty |-> TRUE, complete |-> FALSE, by |-> n]
Empty(n) == [exists |-> TRUE, nonempty |-> FALSE, complete |-> TRUE, by |-> n]

\* what session.get and the streaming of the body may do
Responses == {"200", "200empty", "200partial", "403", "404", "500", "raise"}
\* what running curl may do: write the body of a 200 response, write the
\* body of an error response (no --fail is passed), write an empty file,
\* leave the file alone (no response came), or time out (with or without
\* bytes written)
CurlRuns == {"body", "error_body", "empty", "untouched", "raise", "raise_partial"}
\* what running wget may do: exit 0 with a body or with none, exit non-zero
\* (the file -O opened is left empty), or time out
WgetRuns == {"rc0_body", "rc0_empty", "fail", "raise"}
\* what the availability lookup may answer
Lookups == {"snapshot", "none", "non200", "malformed", "raise"}

ContentType == <<"application/octet-stream">>

----------------------------------------------------------------------------
(* The control state of a fetch call, and where it continues *)

Ctl == [pc |-> pc, eng |-> eng, mirrors |-> mirrors, mi |-> mi, cur |-> cur,
        depth |-> depth, snapshot_url |-> snapshot_url,
        attempted_urls |-> attempted_urls, result |-> result, wb_ret |-> wb_ret]

Set(c) ==
    /\ pc' = c.pc
    /\ eng' = c.eng
    /\ mirrors' = c.mirrors
    /\ mi' = c.mi
    /\ cur' = c.cur
    /\ depth' = c.depth
    /\ snapshot_url' = c.snapshot_url
    /\ attempted_urls' = c.attempted_urls
    /\ result' = c.result
    /\ wb_ret' = c.wb_ret

\* return DownloadResult(...)
Return(c, r) == [c EXCEPT !.pc = "done", !.result = r]

\* an exception leaves fetch
Raise(c) == [c EXCEPT !.pc = "raised"]

\* f"https://web.archive.org/web/{url}"
WaybackPattern(u) == <<"https://", "web.archive.org", "/", "web", "/">> \o u
\* f"https://web.archive.org/web/*/{url}"
WaybackStar(u) == <<"https://", "web.archive.org", "/", "web", "/", "*", "/">> \o u
\* f"https://archive.org/wayback/available?url={url}"
AvailabilityUrl(u) == <<"https://", "archive.org", "/", "wayback", "/", "available?url=">> \o u

\* _try_wayback has not returned
NoReturn == [success |-> FALSE, ctype |-> None, url |-> None, returned |-> FALSE]

\* WaybackReturned with the failure result keeping local_path=output_path
WaybackReturned_PathOnFailure(c, success, ctype, wayback_url) ==
    LET r == [success |-> success, ctype |-> ctype, url |-> wayback_url,
              returned |-> TRUE]
        d == [c EXCEPT !.wb_ret = r]
    IN  Return(d, DownloadResult(IF success THEN WAYBACK_SUCCESS ELSE FAILED_MIRROR,
                                 output_path, ctype, url, c.attempted_urls,
                                 IF wayback_url # None THEN wayback_url
                                 ELSE WaybackStar(url),
                                 IF success THEN None
                                 ELSE <<"All download strategies failed">>))

\* fetch, lines 310-331: _try_wayback returned (success, ctype, wayback_url)
WaybackReturned(c, success, ctype, wayback_url) ==
    LET r == [success |-> success, ctype |-> ctype, url |-> wayback_url,
              returned |-> TRUE]
        d == [c EXCEPT !.wb_ret = r]
    IN  IF success
        THEN Return(d, DownloadResult(WAYBACK_SUCCESS, output_path, ctype, url,
                                      c.attempted_urls, wayback_url, None))
        ELSE Return(d, DownloadResult(FAILED_MIRROR, None, None, url, c.attempted_urls,
                                      IF wayback_url # None THEN wayback_url
                                      ELSE WaybackStar(url),
                                      <<"All download strategies failed">>))

\* Strategy3 with the archive fallback tied to the mirror flag as well
Strategy3_NeedsMirrors(c) ==
    IF try_wayback /\ try_mirrors
    THEN [c EXCEPT !.pc = "wb_lookup", !.cur = None, !.depth = 0]
    ELSE Return(c, DownloadResult(FAILED_NETWORK, None, None, url, c.attempted_urls,
                                  None, <<"All download engines failed">>))

\* Strategy3 with the failure result built without calling the resolver
Strategy3_NoResolver(c) ==
    IF try_wayback
    THEN Return(c, DownloadResult(FAILED_MIRROR, None, None, url, c.attempted_urls,
                                  WaybackStar(url), <<"All download strategies failed">>))
    ELSE Return(c, DownloadResult(FAILED_NETWORK, None, None, url, c.attempted_urls,
                                  None, <<"All download engines failed">>))

\* fetch, lines 307-341
Strategy3(c) ==
    IF try_wayback
    THEN [c EXCEPT !.pc = "wb_lookup", !.cur = None, !.depth = 0]
    ELSE Return(c, DownloadResult(FAILED_NETWORK, None, None, url, c.attempted_urls,
                                  None, <<"All download engines failed">>))

\* NextMirror with the mirror inserted at the head of attempted_urls
NextMirror_Prepend(c, i) ==
    [c EXCEPT !.pc = "mirror", !.mi = i, !.eng = 1, !.cur = c.mirrors[i], !.depth = 0,
              !.attempted_urls = <<c.mirrors[i]>> \o @]

\* fetch, lines 288-290: the loop takes mirrors[i]
NextMirror(c, i) ==
    [c EXCEPT !.pc = "mirror", !.mi = i, !.eng = 1, !.cur = c.mirrors[i], !.depth = 0,
              !.attempted_urls = Append(@, c.mirrors[i])]

\* Strategy2 without the test of try_mirrors
Strategy2_IgnoresFlag(c) ==
    IF UrlparseRaises(url) THEN Raise(c)
    ELSE LET ms == FirstN(_generate_mirror_urls(url), MirrorLimit)
         IN  IF ms = <<>> THEN Strategy3(c)
             ELSE NextMirror([c EXCEPT !.mirrors = ms], 1)

\* fetch, lines 285-288
Strategy2(c) ==
    IF try_mirrors
    THEN IF UrlparseRaises(url) THEN Raise(c)
         ELSE LET ms == FirstN(_generate_mirror_urls(url), MirrorLimit)
              IN  IF ms = <<>> THEN Strategy3(c)
                  ELSE NextMirror([c EXCEPT !.mirrors = ms], 1)
    ELSE Strategy3(c)

\* the engine lists of the two loops
DirectEngines == <<"requests", "curl", "wget">>
MirrorEngines == <<"requests", "curl">>

\* the engine whose call is running
EngineAt ==
    CASE pc = "direct" -> DirectEngines[eng]
      [] pc = "mirror" -> MirrorEngines[eng]
      [] pc = "wb_snapshot" -> "requests"
      [] pc = "wb_pattern" -> "curl"
      [] OTHER -> "none"

\* EngineReturned with the direct loop returning only after its last engine
EngineReturned_Continue(c, success, detail) ==
    CASE c.pc = "direct" ->
            IF c.eng < Len(DirectEngines)
            THEN [c EXCEPT !.eng = c.eng + 1, !.cur = url, !.depth = 0]
            ELSE IF success
            THEN Return(c, DownloadResult(SUCCESS, output_path, detail, url,
                                          c.attempted_urls, None, None))
            ELSE Strategy2(c)
      [] c.pc = "mirror" ->
            IF success
            THEN Return(c, DownloadResult(SUCCESS, output_path, detail, c.mirrors[c.mi],
                                          c.attempted_urls, None, None))
            ELSE IF c.eng < Len(MirrorEngines)
            THEN [c EXCEPT !.eng = c.eng + 1, !.cur = c.mirrors[c.mi], !.depth = 0]
            ELSE IF c.mi < Len(c.mirrors) THEN NextMirror(c, c.mi + 1)
            ELSE Strategy3(c)
      [] c.pc = "wb_snapshot" ->
            IF success THEN WaybackReturned(c, TRUE, detail, c.snapshot_url)
            ELSE [c EXCEPT !.pc = "wb_pattern", !.cur = WaybackPattern(url), !.depth = 0]
      [] c.pc = "wb_pattern" ->
            IF success THEN WaybackReturned(c, TRUE, detail, WaybackPattern(url))
            ELSE WaybackReturned(c, FALSE, None, WaybackPattern(url))

\* the running engine call returned (success, detail)
EngineReturned(c, success, detail) ==
    CASE c.pc = "direct" ->
            IF success
            THEN Return(c, DownloadResult(SUCCESS, output_path, detail, url,
                                          c.attempted_urls, None, None))
            ELSE IF c.eng < Len(DirectEngines)
            THEN [c EXCEPT !.eng = c.eng + 1, !.cur = url, !.depth = 0]
            ELSE Strategy2(c)
      [] c.pc = "mirror" ->
            IF success
            THEN Return(c, DownloadResult(SUCCESS, output_path, detail, c.mirrors[c.mi],
                                          c.attempted_urls, None, None))
            ELSE IF c.eng < Len(MirrorEngines)
            THEN [c EXCEPT !.eng = c.eng + 1, !.cur = c.mirrors[c.mi], !.depth = 0]
            ELSE IF c.mi < Len(c.mirrors) THEN NextMirror(c, c.mi + 1)
            ELSE Strategy3(c)
      [] c.pc = "wb_snapshot" ->
            IF success THEN WaybackReturned(c, TRUE, detail, c.snapshot_url)
            ELSE [c EXCEPT !.pc = "wb_pattern", !.cur = WaybackPattern(url), !.depth = 0]
      [] c.pc = "wb_pattern" ->
            IF success THEN WaybackReturned(c, TRUE, detail, WaybackPattern(url))
            ELSE WaybackReturned(c, FALSE, None, WaybackPattern(url))

\* EngineRaised with the handler of _try_wayback returning no URL
EngineRaised_NoUrl(c) ==
    IF c.pc \in {"wb_snapshot", "wb_pattern"}
    THEN WaybackReturned(c, FALSE, None, None)
    ELSE Raise(c)

\* an exception left the running engine call: _try_wayback's handler (lines
\* 252-254) catches it, fetch's loops do not
EngineRaised(c) ==
    IF c.pc \in {"wb_snapshot", "wb_pattern"}
    THEN WaybackReturned(c, FALSE, None, WaybackStar(url))
    ELSE Raise(c)

----------------------------------------------------------------------------
(* Initial state: a fetcher just constructed, no fetch running *)

\* the threads that share the fetcher
Threads == {"t1", "t2"}

\* a thread that has called _rate_limit never: pc is where the call stands,
\* prev the entry of last_request_time it read (-1: none), entry the time it
\* read, wake the time its sleep ends, release the time it recorded, calls
\* the number of calls it finished
NoThreadCall == [pc |-> "idle", prev |-> -1, entry |-> -1, wake |-> -1, release |-> -1,
                 calls |-> 0]

NoCall == [domain |-> None, entry |-> 0, slept |-> 0, release |-> 0, prev |-> -1]

Init ==
    /\ HAS_REQUESTS \in BOOLEAN
    /\ has_curl \in BOOLEAN
    /\ has_wget \in BOOLEAN
    /\ now = 0
    /\ last_request_time = [d \in {} |-> 0]
    /\ rl = NoCall
    /\ file = Absent
    /\ pc = "idle"
    /\ url = None
    /\ try_mirrors = TRUE
    /\ try_wayback = TRUE
    /\ attempted_urls = <<>>
    /\ eng = 1
    /\ mirrors = <<>>
    /\ mi = 0
    /\ cur = None
    /\ depth = 0
    /\ snapshot_url = None
    /\ result = NoResult
    /\ wb_ret = NoReturn
    /\ log = <<>>
    /\ responses = <<>>
    /\ tried = <<>>
    /\ engine_detail = None
    /\ name_url = None
    /\ preferred_ext = None
    /\ safe_name = None
    /\ name_pc = "idle"
    /\ thread = [t \in Threads |-> NoThreadCall]
    /\ overlapped = FALSE

env == <<HAS_REQUESTS, has_curl, has_wget>>
args == <<url, try_mirrors, try_wayback>>
clock == <<now, last_request_time, rl>>
naming == <<name_url, preferred_ext, safe_name, name_pc>>
threads == <<thread, overlapped>>

\* the url argument of the engine call that is running
Target ==
    CASE pc = "direct" -> url
      [] pc = "mirror" -> mirrors[mi]
      [] pc = "wb_snapshot" -> snapshot_url
      [] pc = "wb_pattern" -> WaybackPattern(url)
      [] OTHER -> None

\* one outbound request, as the log keeps it: who sent it where, the domain
\* _rate_limit was called with before it (None: it was not called), and
\* whether the engine reported success on it
Request(engine, u, domain, ok) ==
    [engine |-> engine, url |-> u, stage |-> pc, domain |-> domain, ok |-> ok]

\* the running engine call returned (success, d)
Tried(engine, success, d) ==
    /\ tried' = Append(tried, [engine |-> engine, url |-> Target, stage |-> pc,
                               success |-> success])
    /\ engine_detail' = d

\* Available with every dependency taken to be there
Available_Always(engine) == TRUE

\* the dependency of an engine is there: lines 141, 174, 204
Available(engine) ==
    CASE engine = "requests" -> HAS_REQUESTS
      [] engine = "curl" -> has_curl
      [] engine = "wget" -> has_wget

----------------------------------------------------------------------------
(* fetch is called: line 266 *)

fetch(u, tm, tw, f0) ==
    /\ pc = "idle"
    /\ url' = u
    /\ try_mirrors' = tm
    /\ try_wayback' = tw
    /\ file' = f0
    /\ Set([Ctl EXCEPT !.pc = "direct", !.cur = u, !.attempted_urls = <<u>>])
    /\ UNCHANGED <<threads, naming, env, clock, log, responses, tried, engine_detail>>

----------------------------------------------------------------------------
(* _try_requests: one call frame, up to its return or its recursive call *)

\* ArxivVariant without the /pdf/ path rule
ArxivVariant_SuffixOnly(u, status) ==
    IF status \in {"403", "404"} /\ Contains(u, <<"arxiv.org">>)
    THEN IF ~EndsWith(u, <<".pdf">>) THEN RStrip(u, "/") \o <<".pdf">>
         ELSE None
    ELSE None

\* ArxivVariant with the /pdf/ rule leaving /abs/ in place
ArxivVariant_KeepAbs(u, status) ==
    IF status \in {"403", "404"} /\ Contains(u, <<"arxiv.org">>)
    THEN IF ~EndsWith(u, <<".pdf">>) THEN RStrip(u, "/") \o <<".pdf">>
         ELSE IF Contains(u, <<"/", "abs", "/">>) THEN u \o <<".pdf">>
         ELSE None
    ELSE None

\* lines 157-166: the URL the frame recurses on, None when it does not
ArxivVariant(u, status) ==
    IF status \in {"403", "404"} /\ Contains(u, <<"arxiv.org">>)
    THEN IF ~EndsWith(u, <<".pdf">>) THEN RStrip(u, "/") \o <<".pdf">>
         ELSE IF Contains(u, <<"/", "abs", "/">>)
         THEN Replace(u, <<"/", "abs", "/">>, <<"/", "pdf", "/">>) \o <<".pdf">>
         ELSE None
    ELSE None

\* lines 151-155: the file after a 200 response was streamed to it
Streamed(resp, n) ==
    CASE resp = "200" -> Written(n)
      [] resp = "200empty" -> Empty(n)
      [] resp = "200partial" -> Partial(n)

\* lines 151-170: what the frame returns on a response it does not recurse on
RequestsSuccess(resp) == resp \in {"200", "200empty"}
RequestsDetail(resp) ==
    CASE RequestsSuccess(resp) -> ContentType
      [] resp \in {"raise", "200partial"} -> <<"str(e)">>
      [] OTHER -> <<"HTTP ", resp>>

_try_requests(resp) ==
    /\ EngineAt = "requests"
    /\ IF ~Available("requests")
       THEN /\ Set(EngineReturned(Ctl, FALSE, <<"requests not available">>))
            /\ Tried("requests", FALSE, <<"requests not available">>)
            /\ UNCHANGED <<clock, file, log, responses>>
       ELSE IF UrlparseRaises(cur)
       THEN \* line 144 is outside the frame's try; a recursive call is inside its caller's
            /\ IF depth = 0
               THEN Set(EngineRaised(Ctl)) /\ UNCHANGED <<tried, engine_detail>>
               ELSE /\ Set(EngineReturned(Ctl, FALSE, <<"Invalid IPv6 URL">>))
                    /\ Tried("requests", FALSE, <<"Invalid IPv6 URL">>)
            /\ UNCHANGED <<clock, file, log, responses>>
       ELSE /\ _rate_limit(Netloc(cur), 0, 0)
            /\ log' = Append(log, Request("requests", cur, Netloc(cur),
                                          RequestsSuccess(resp)))
            /\ responses' = IF depth = 0 THEN <<resp>> ELSE Append(responses, resp)
            /\ file' = IF resp \in {"200", "200empty", "200partial"}
                       THEN Streamed(resp, Len(log) + 1) ELSE file
            /\ IF ~RequestsSuccess(resp) /\ ArxivVariant(cur, resp) # None
               THEN /\ Set([Ctl EXCEPT !.cur = ArxivVariant(cur, resp),
                                       !.depth = depth + 1])
                    /\ UNCHANGED <<tried, engine_detail>>
               ELSE /\ Set(EngineReturned(Ctl, RequestsSuccess(resp),
                                          RequestsDetail(resp)))
                    /\ Tried("requests", RequestsSuccess(resp), RequestsDetail(resp))
    /\ UNCHANGED <<threads, naming, env, args>>

----------------------------------------------------------------------------
(* _try_curl *)

\* the file after subprocess.run(curl ...) ended
CurlFile(run, n) ==
    CASE run \in {"body", "error_body"} -> Written(n)
      [] run = "empty" -> Empty(n)
      [] run = "raise_partial" -> Partial(n)
      [] OTHER -> file

\* lines 193-200
CurlSuccess(run, f) == run \notin {"raise", "raise_partial"} /\ f.exists /\ f.nonempty
CurlDetail(run, f) ==
    CASE CurlSuccess(run, f) -> ContentType
      [] run \in {"raise", "raise_partial"} -> <<"str(e)">>
      [] OTHER -> <<"curl returned empty file">>

_try_curl(run) ==
    /\ EngineAt = "curl"
    /\ IF ~Available("curl")
       THEN /\ Set(EngineReturned(Ctl, FALSE, <<"curl not available">>))
            /\ Tried("curl", FALSE, <<"curl not available">>)
            /\ UNCHANGED <<clock, file, log, responses>>
       ELSE IF UrlparseRaises(cur)
       THEN /\ Set(EngineRaised(Ctl))
            /\ UNCHANGED <<clock, file, log, responses, tried, engine_detail>>
       ELSE /\ _rate_limit(Netloc(cur), 0, 0)
            /\ file' = CurlFile(run, Len(log) + 1)
            /\ log' = Append(log, Request("curl", cur, Netloc(cur),
                                          CurlSuccess(run, file')))
            /\ responses' = <<run>>
            /\ Set(EngineReturned(Ctl, CurlSuccess(run, file'), CurlDetail(run, file')))
            /\ Tried("curl", CurlSuccess(run, file'), CurlDetail(run, file'))
    /\ UNCHANGED <<threads, naming, env, args>>

----------------------------------------------------------------------------
(* _try_wget *)

\* the file after subprocess.run(wget -O ...) ended
WgetFile(run, n) ==
    CASE run = "rc0_body" -> Written(n)
      [] run = "rc0_empty" -> Empty(n)
      [] run = "fail" -> Empty(n)
      [] OTHER -> file

\* lines 220-226
WgetSuccess(run, f) == run \in {"rc0_body", "rc0_empty"} /\ f.exists /\ f.nonempty
WgetDetail(run, f) ==
    CASE WgetSuccess(run, f) -> ContentType
      [] run = "raise" -> <<"str(e)">>
      [] OTHER -> <<"wget failed">>

_try_wget(run) ==
    /\ EngineAt = "wget"
    /\ IF ~Available("wget")
       THEN /\ Set(EngineReturned(Ctl, FALSE, <<"wget not available">>))
            /\ Tried("wget", FALSE, <<"wget not available">>)
            /\ UNCHANGED <<clock, file, log, responses>>
       ELSE IF UrlparseRaises(cur)
       THEN /\ Set(EngineRaised(Ctl))
            /\ UNCHANGED <<clock, file, log, responses, tried, engine_detail>>
       ELSE /\ _rate_limit(Netloc(cur), 0, 0)
            /\ file' = WgetFile(run, Len(log) + 1)
            /\ log' = Append(log, Request("wget", cur, Netloc(cur),
                                          WgetSuccess(run, file')))
            /\ responses' = <<run>>
            /\ Set(EngineReturned(Ctl, WgetSuccess(run, file'), WgetDetail(run, file')))
            /\ Tried("wget", WgetSuccess(run, file'), WgetDetail(run, file'))
    /\ UNCHANGED <<threads, naming, env, args>>

----------------------------------------------------------------------------
(* _try_wayback, lines 230-240: the availability lookup *)

\* where _try_wayback continues after the lookup answered
LookupReturned(c, answer, snap) ==
    CASE answer = "snapshot" ->
            [c EXCEPT !.pc = "wb_snapshot", !.snapshot_url = snap, !.cur = snap,
                      !.depth = 0]
      [] answer \in {"none", "non200"} ->
            [c EXCEPT !.pc = "wb_pattern", !.cur = WaybackPattern(url), !.depth = 0]
      [] answer \in {"malformed", "raise"} ->
            WaybackReturned(c, FALSE, None, WaybackStar(url))

_try_wayback(answer, snap) ==
    /\ pc = "wb_lookup"
    /\ IF HAS_REQUESTS
       THEN /\ log' = Append(log, Request("lookup", AvailabilityUrl(url), None, FALSE))
            /\ Set(LookupReturned(Ctl, answer, snap))
       ELSE /\ log' = log
            /\ Set([Ctl EXCEPT !.pc = "wb_pattern", !.cur = WaybackPattern(url),
                               !.depth = 0])
    /\ UNCHANGED <<threads, naming, env, args, clock, file, responses, tried, engine_detail>>

----------------------------------------------------------------------------

Next ==
    \/ \E u \in Urls, tm \in BOOLEAN, tw \in BOOLEAN, f0 \in {Absent, OldFile} :
          fetch(u, tm, tw, f0)
    \/ \E resp \in Responses : _try_requests(resp)
    \/ \E run \in CurlRuns : _try_curl(run)
    \/ \E run \in WgetRuns : _try_wget(run)
    \/ \E answer \in Lookups, snap \in Snapshots(url) : _try_wayback(answer, snap)

Spec == Init /\ [][Next]_vars

----------------------------------------------------------------------------
(* Any sequence of throttled attempts on one instance *)

\* the domains of the attempts
RateDomains == {Netloc(ArxivAbs), Netloc(DniReport), Netloc(WaybackPattern(Plain))}

Throttle(domain, pre, over) ==
    /\ now + pre <= MaxClock
    /\ _rate_limit(domain, pre, over)
    /\ UNCHANGED <<threads, naming, env, args, file, pc, attempted_urls, eng, mirrors, mi, cur, depth,
                   snapshot_url, result, wb_ret, log, responses, tried, engine_detail>>

NextRate ==
    \E domain \in RateDomains, pre \in 0..MaxPre, over \in 0..MaxOver :
        Throttle(domain, pre, over)

SpecRate == Init /\ [][NextRate]_vars

----------------------------------------------------------------------------
(* filename_from_url, called any number of times *)

\* os.path.basename(p): what follows the last "/"
Basename(p) ==
    IF \E i \in DOMAIN p : p[i] = "/"
    THEN Drop(p, 1 + CHOOSE i \in DOMAIN p : p[i] = "/" /\ \A j \in (i + 1)..Len(p) : p[j] # "/")
    ELSE p

\* the tokens made of characters that are neither alphanumeric nor in "._-"
UnsafeTokens == {"%", "/", "?x=1", "[", "]"}

\* lines 409-410: the characters kept, and the name returned
Sanitize(s) == SelectSeq(s, LAMBDA t : t \notin UnsafeTokens)

\* the value filename_from_url(u, ext) returns
SafeName(u, ext) ==
    LET path == Path(u)
        base0 == IF Basename(path) # <<>> THEN Basename(path) ELSE <<"index">>
        base == IF ext # None /\ ~EndsWith(Lower(base0), ext) THEN base0 \o ext ELSE base0
        safe_name_ == Sanitize(base)
    IN  IF safe_name_ # <<>> THEN safe_name_ ELSE <<"download.bin">>

\* the arguments of the calls
NameUrls ==
    { <<"https://", "x", "/", "a", "/", "b", ".PDF">>,
      <<"https://", "x", "/", "a", "/", "b", ".pdf">>,
      <<"https://", "x", "/", "a", "/", "b">>,
      <<"https://", "x", "/", "a", "/", "b", "%", ".pdf">>,
      <<"https://", "x", "/", "a", "/", "%">>,
      <<"https://", "x", "/", "a", "/", "?x=1">>,
      <<"https://", "x", "/">>,
      <<"https://", "x">>,
      Malformed }
Exts == {None, <<".pdf">>, <<".PDF">>, <<".html">>}

filename_from_url(u, ext) ==
    /\ name_url' = u
    /\ preferred_ext' = ext
    /\ IF UrlparseRaises(u)
       THEN name_pc' = "raised" /\ safe_name' = None
       ELSE name_pc' = "returned" /\ safe_name' = SafeName(u, ext)
    /\ UNCHANGED <<threads, env, args, clock, file, pc, attempted_urls, eng, mirrors, mi, cur,
                   depth, snapshot_url, result, wb_ret, log, responses, tried, engine_detail>>

NextName == \E u \in NameUrls, ext \in Exts : filename_from_url(u, ext)

SpecName == Init /\ [][NextName]_vars

----------------------------------------------------------------------------
(* Two threads that share the fetcher call _rate_limit for one domain.     *)
(* The code takes no lock, so the statements of the two calls interleave   *)
(* freely: a thread may be suspended between any two of lines 96, 99, 100. *)

\* the domain the threads send their requests to
ThreadDomain == Netloc(ArxivAbs)

\* time passes
Tick ==
    /\ now < MaxClock
    /\ now' = now + 1
    /\ UNCHANGED <<threads, naming, env, args, last_request_time, rl, file, pc,
                   attempted_urls, eng, mirrors, mi, cur, depth, snapshot_url, result,
                   wb_ret, log, responses, tried, engine_detail>>

\* what a step of a thread's call leaves alone
ThreadFrame ==
    UNCHANGED <<naming, env, args, now, rl, file, pc, attempted_urls, eng, mirrors, mi,
                cur, depth, snapshot_url, result, wb_ret, log, responses, tried,
                engine_detail>>

\* lines 96-98: the thread reads the domain's entry and the clock and
\* decides how long to sleep
RateCheck(t) ==
    /\ thread[t].pc = "idle"
    /\ thread[t].calls < MaxCalls
    /\ now + rate_limit_delay <= MaxClock
    /\ thread' = [thread EXCEPT ![t] =
                     [@ EXCEPT !.pc = IF SleepFor(ThreadDomain, now) > 0 THEN "sleep"
                                      ELSE "record",
                               !.prev = IF ThreadDomain \in DOMAIN last_request_time
                                        THEN last_request_time[ThreadDomain] ELSE -1,
                               !.entry = now,
                               !.wake = now + SleepFor(ThreadDomain, now)]]
    /\ overlapped' = (overlapped \/ \E o \in Threads \ {t} : thread[o].pc # "idle")
    /\ last_request_time' = last_request_time
    /\ ThreadFrame

\* Woken with time.sleep returning at once
Woken_Early(t) == TRUE

\* line 99: time.sleep returns no sooner than asked
Woken(t) == now >= thread[t].wake

RateSleep(t) ==
    /\ thread[t].pc = "sleep"
    /\ Woken(t)
    /\ thread' = [thread EXCEPT ![t].pc = "record"]
    /\ UNCHANGED <<overlapped, last_request_time>>
    /\ ThreadFrame

\* line 100: the thread stores the clock and its call returns
RateRecord(t) ==
    /\ thread[t].pc = "record"
    /\ last_request_time' = Recorded(ThreadDomain, now)
    /\ thread' = [thread EXCEPT ![t] = [@ EXCEPT !.pc = "idle", !.release = now,
                                                  !.calls = @ + 1]]
    /\ overlapped' = overlapped
    /\ ThreadFrame

NextThreads ==
    \/ Tick
    \/ \E t \in Threads : RateCheck(t)
    \/ \E t \in Threads : RateSleep(t)
    \/ \E t \in Threads : RateRecord(t)

SpecThreads == Init /\ [][NextThreads]_vars

----------------------------------------------------------------------------
(* One call of the in-process engine on a preprint URL *)

\* arxiv.org URLs with and without the ".pdf" suffix, a trailing "/", and
\* no, one or two /abs/ segments
ArxivUrls ==
    { ArxivAbs,
      <<"https://", "arxiv.org", "/", "abs", "/", "2301.00001", "/">>,
      <<"https://", "arxiv.org", "/", "abs", "/", "abs", "/", "2301.00001">>,
      <<"https://", "arxiv.org", "/", "pdf", "/", "2301.00001">>,
      <<"https://", "arxiv.org", "/", "pdf", "/", "2301.00001", ".pdf">>,
      <<"https://", "arxiv.org", "/", "abs", "/", "2301.00001", ".pdf">>,
      <<"https://", "export.", "arxiv.org", "/", "abs", "/", "2301.00001">> }

\* fetch is called and its first engine call runs, answered in any way
NextArxiv ==
    \/ \E u \in ArxivUrls, f0 \in {Absent, OldFile} : fetch(u, TRUE, TRUE, f0)
    \/ \E resp \in Responses : pc = "direct" /\ eng = 1 /\ _try_requests(resp)

SpecArxiv == Init /\ [][NextArxiv]_vars

----------------------------------------------------------------------------
(* Properties *)

Range(s) == {s[i] : i \in DOMAIN s}
IsPrefix(s, t) == Len(s) <= Len(t) /\ SubSeq(t, 1, Len(s)) = s

Successes == {SUCCESS, WAYBACK_SUCCESS}
Archive == {"wb_lookup", "wb_snapshot", "wb_pattern"}

\* the order of the strategies
StageRank(stage) ==
    CASE stage = "direct" -> 1
      [] stage = "mirror" -> 2
      [] OTHER -> 3

\* the order of the engines of the direct loop
EngineRank(engine) ==
    CASE engine = "requests" -> 1
      [] engine = "curl" -> 2
      [] OTHER -> 3

\* the three direct engine calls were made in order on the input URL and failed
DirectFailed ==
    /\ Len(tried) >= 3
    /\ \A k \in 1..3 : /\ tried[k].stage = "direct"
                       /\ tried[k].engine = DirectEngines[k]
                       /\ tried[k].url = url
                       /\ ~tried[k].success

\* C1: the result fetch returns has local_path equal to output_path exactly
\* when its status is SUCCESS or WAYBACK_SUCCESS, and None on every failure.
C1_LocalPathIffSuccess ==
    pc = "done" =>
        /\ result.local_path = output_path <=> result.status \in Successes
        /\ result.status \notin Successes => result.local_path = None

C1_Witness ==
    /\ pc = "done"
    /\ result.status = WAYBACK_SUCCESS
    /\ result.local_path = output_path

\* C2: a fetch call never ends by an exception leaving it: until it has
\* returned one DownloadResult it has a next engine call or lookup to make.
C2_ReturnsResult ==
    /\ pc # "raised"
    /\ pc = "done" => result.status \in DownloadStatus
    /\ pc \notin {"idle", "done"} => (EngineAt # "none" \/ pc = "wb_lookup")

C4_StageOrder ==
    /\ \A i, j \in DOMAIN tried :
          i < j => StageRank(tried[i].stage) <= StageRank(tried[j].stage)
    /\ \A i, j \in DOMAIN log :
          i < j => /\ StageRank(log[i].stage) <= StageRank(log[j].stage)
                   /\ (log[i].stage = "direct" /\ log[j].stage = "direct") =>
                         EngineRank(log[i].engine) <= EngineRank(log[j].engine)
    /\ \A i \in DOMAIN tried :
          tried[i].stage = "direct" =>
             i <= 3 /\ tried[i].engine = DirectEngines[i] /\ tried[i].url = url
    /\ (pc = "mirror" \/ \E i \in DOMAIN log : log[i].stage = "mirror") =>
          (try_mirrors /\ DirectFailed)
    /\ (pc \in Archive \/ wb_ret.returned \/ \E i \in DOMAIN log : log[i].stage \in Archive) =>
          /\ try_wayback
          /\ DirectFailed
          /\ \A i \in DOMAIN tried : tried[i].stage = "mirror" => ~tried[i].success
          /\ (try_mirrors /\ mirrors # <<>>) =>
                \A m \in DOMAIN mirrors :
                   \A e \in DOMAIN MirrorEngines :
                      \E i \in DOMAIN tried :
                         /\ tried[i].stage = "mirror"
                         /\ tried[i].url = mirrors[m]
                         /\ tried[i].engine = MirrorEngines[e]

C4_Witness ==
    /\ pc = "wb_pattern"
    /\ Len(mirrors) = 3
    /\ \E i \in DOMAIN log : log[i].stage = "mirror" /\ log[i].engine = "curl"
    /\ \E i \in DOMAIN log : log[i].stage = "direct" /\ log[i].engine = "wget"
    /\ \E i \in DOMAIN log : log[i].stage = "wb_snapshot"

\* C5: when no engine call of a fetch succeeded, the result is FAILED_MIRROR
\* with a wayback_url if try_wayback is set, whatever try_mirrors is, and
\* FAILED_NETWORK without a wayback_url if it is not; fetch never returns
\* FAILED_403, FAILED_404 or FAILED_TIMEOUT.
C5_FailureStatus ==
    pc = "done" =>
        /\ result.status \notin {FAILED_403, FAILED_404, FAILED_TIMEOUT}
        /\ (\A i \in DOMAIN tried : ~tried[i].success) =>
              IF try_wayback
              THEN result.status = FAILED_MIRROR /\ result.wayback_url # None
              ELSE result.status = FAILED_NETWORK /\ result.wayback_url = None

C5_Witness ==
    /\ pc = "done"
    /\ ~try_mirrors /\ try_wayback
    /\ result.status = FAILED_MIRROR
    /\ result.attempted_urls = <<url>>
    /\ log # <<>>

\* C6: attempted_urls is never empty during and after a fetch and starts
\* with the input URL, the result carries it, and a step of the fetch only
\* appends to it.
C6_AttemptedUrls ==
    /\ [](pc # "idle" =>
            /\ attempted_urls # <<>>
            /\ attempted_urls[1] = url
            /\ pc = "done" => result.attempted_urls = attempted_urls)
    /\ [][pc # "idle" => IsPrefix(attempted_urls, attempted_urls')]_vars

C6_Witness ==
    /\ pc = "done"
    /\ Len(result.attempted_urls) = 4
    /\ result.attempted_urls[1] = url

\* C7: every URL an engine sent a request to is in attempted_urls.
C7_AllRequestsListed ==
    \A i \in DOMAIN log :
        log[i].engine # "lookup" => log[i].url \in Range(attempted_urls)

\* C8: a _rate_limit call for a domain that was throttled before returns at
\* least rate_limit_delay after that domain's previous call returned, and a
\* call sleeps only when its own domain's previous call is less than
\* rate_limit_delay old, whatever other domains were throttled meanwhile.
C8_RateLimit ==
    /\ rl.prev # -1 => rl.release - rl.prev >= rate_limit_delay
    /\ rl.slept > 0 => (rl.prev # -1 /\ rl.entry - rl.prev < rate_limit_delay)
    /\ \A d \in DOMAIN last_request_time : last_request_time[d] <= now

C8_Witness ==
    /\ rl.slept > 0
    /\ rl.release - rl.prev = rate_limit_delay
    /\ \E d \in DOMAIN last_request_time :
          d # rl.domain /\ last_request_time[d] > rl.prev

\* the direct in-process engine call on an arxiv.org/abs/ URL has returned
\* and every request it sent was answered 404
AbsCallAll404 ==
    /\ Contains(url, <<"arxiv.org", "/", "abs", "/">>)
    /\ ~EndsWith(url, <<".pdf">>)
    /\ Len(tried) = 1
    /\ tried[1].engine = "requests"
    /\ log # <<>>
    /\ \A i \in DOMAIN responses : responses[i] = "404"

\* C9 as the spec states it: when every request of the in-process engine
\* call on an arxiv.org/abs/ URL is answered 404, the call sends two
\* requests, the original URL and one derived URL, and reports failure.
C9_OneVariant == AbsCallAll404 => (Len(log) = 2 /\ ~tried[1].success)

\* C9 as amended: the call sends three requests, to the original URL, to
\* that URL with ".pdf" appended, and to the latter with /abs/ replaced by
\* /pdf/ and ".pdf" appended once more, and reports failure.
C9_TwoVariants ==
    AbsCallAll404 =>
        /\ Len(log) = 3
        /\ \A i \in 1..3 : log[i].engine = "requests" /\ log[i].stage = "direct"
        /\ log[1].url = url
        /\ log[2].url = url \o <<".pdf">>
        /\ log[3].url = <<"https://", "arxiv.org", "/", "pdf", "/", "2301.00001", ".pdf",
                          ".pdf">>
        /\ ~tried[1].success

C9_Witness == AbsCallAll404 /\ Len(log) = 3 /\ pc = "direct" /\ eng = 2

\* a web.archive.org/web/ URL that embeds u
IsArchiveUrlFor(w, u) ==
    /\ Len(w) >= 5
    /\ SubSeq(w, 2, 5) = <<"web.archive.org", "/", "web", "/">>
    /\ EndsWith(w, u)

\* C10: when _try_wayback returns failure, the archive URL it returns is not
\* None and is a web.archive.org/web/ URL that embeds the input URL; every
\* FAILED_MIRROR result has a wayback_url.
C10_FallbackUrl ==
    /\ (wb_ret.returned /\ ~wb_ret.success) =>
          (wb_ret.url # None /\ IsArchiveUrlFor(wb_ret.url, url))
    /\ (pc = "done" /\ result.status = FAILED_MIRROR) =>
          (result.wayback_url # None /\ IsArchiveUrlFor(result.wayback_url, url))

C10_Witness ==
    /\ wb_ret.returned /\ ~wb_ret.success
    /\ wb_ret.url = WaybackStar(url)
    /\ snapshot_url # None
    /\ result.status = FAILED_MIRROR

\* C11: the result's wayback_url is not None exactly when _try_wayback was
\* called in the fetch, which is exactly when try_wayback is set and no
\* direct or mirror engine call succeeded, whether or not the resolver
\* succeeded; it is None on every SUCCESS and every FAILED_NETWORK result.
C11_WaybackUrlIffResolver ==
    pc = "done" =>
        /\ result.wayback_url # None <=> wb_ret.returned
        /\ wb_ret.returned <=>
              (try_wayback /\ \A i \in DOMAIN tried :
                                 tried[i].stage \in {"direct", "mirror"} => ~tried[i].success)
        /\ wb_ret.returned => result.wayback_url = (IF wb_ret.url # None THEN wb_ret.url
                                                    ELSE WaybackStar(url))
        /\ result.status \in {SUCCESS, FAILED_NETWORK} => result.wayback_url = None
        /\ result.status \in {WAYBACK_SUCCESS, FAILED_MIRROR} => result.wayback_url # None

C11_Witness ==
    /\ pc = "done"
    /\ wb_ret.returned /\ wb_ret.success
    /\ result.status = WAYBACK_SUCCESS
    /\ result.wayback_url = snapshot_url
    /\ snapshot_url # None

\* the (key, sibling) pairs of MIRROR_DOMAINS whose key is in u's domain
MatchingPairs(u) ==
    {pr \in (DOMAIN MIRROR_DOMAINS) \X (1..3) :
        /\ pr[2] \in DOMAIN MIRROR_DOMAINS[pr[1]].mirror_list
        /\ Contains(Lower(Netloc(u)), MIRROR_DOMAINS[pr[1]].base)}

\* u with its domain replaced by mirror
DomainSubstituted(u, mirror) == Scheme(u) \o mirror \o Drop(u, PathStart(u))

\* the paths that differ from p by one of the three segment substitutions
PathVariants(p) ==
    { Replace(p, <<"/", "newsroom", "/">>, <<"/", "library", "/">>),
      Replace(p, <<"/", "reports", "/">>, <<"/", "publications", "/">>),
      Replace(p, <<"/", "documents", "/">>, <<"/", "files", "/">>) } \ {p}

\* C12: for a URL whose domain holds a key of MIRROR_DOMAINS and whose path
\* has a /reports/ segment, the list _generate_mirror_urls returns has
\* exactly four entries per matching key and sibling, and holds for each
\* sibling the URL with the domain replaced by the sibling and a candidate on
\* the sibling whose path is a substituted variant of the original path; the
\* mirrors fetch tries are the first three of this list.
C12_MirrorCandidates ==
    (/\ pc # "idle"
     /\ ~UrlparseRaises(url)
     /\ Contains(Path(url), <<"/", "reports", "/">>)
     /\ MatchingPairs(url) # {}) =>
        LET cands == _generate_mirror_urls(url)
        IN  /\ Len(cands) = 4 * Cardinality(MatchingPairs(url))
            /\ \A pr \in MatchingPairs(url) :
                  LET m == MIRROR_DOMAINS[pr[1]].mirror_list[pr[2]]
                  IN  /\ DomainSubstituted(url, m) \in Range(cands)
                      /\ \E i \in DOMAIN cands :
                            /\ Netloc(cands[i]) = m
                            /\ Path(cands[i]) \in PathVariants(Path(url))
            /\ mirrors # <<>> => mirrors = FirstN(cands, MirrorLimit)

\* the last path segment of u, "index" when it is empty
LastSegment(u) == IF Basename(Path(u)) # <<>> THEN Basename(Path(u)) ELSE <<"index">>

\* C13: the name filename_from_url returns is the last path segment of the
\* URL ("index" when that is empty), with preferred_ext appended exactly when
\* the segment does not end with it, letter case ignored on both sides, and
\* then stripped of every character that is not alphanumeric, ".", "_" or
\* "-"; it is never empty, being "download.bin" when nothing remains.
C13_FilenameFromUrl ==
    name_pc = "returned" =>
        LET seg == LastSegment(name_url)
            named == IF preferred_ext # None /\ ~EndsWith(Lower(seg), Lower(preferred_ext))
                     THEN seg \o preferred_ext ELSE seg
        IN  /\ safe_name # <<>>
            /\ \A i \in DOMAIN safe_name : safe_name[i] \notin UnsafeTokens
            /\ safe_name = IF Sanitize(named) # <<>> THEN Sanitize(named)
                           ELSE <<"download.bin">>

\* the engine call that sent the last request of the log has the answers to
\* its requests in responses
LastAnswered ==
    /\ log # <<>>
    /\ log[Len(log)].engine \in {"requests", "curl", "wget"}
    /\ responses # <<>>

\* the answer to the last request of the log
LastResponse == responses[Len(responses)]

\* the answers that are a response of a status other than 200
Not200 == {"403", "404", "500", "error_body"}
\* the answers that are a whole 200 response
Whole200 == {"200", "200empty", "body", "rc0_body", "rc0_empty"}

\* C14: an engine whose request was answered by a status other than 200,
\* with or without a body, reports failure on it, and an engine reports
\* success only on a 200 response.
C14_Non200Fails ==
    LastAnswered =>
        /\ LastResponse \in Not200 => ~log[Len(log)].ok
        /\ log[Len(log)].ok => LastResponse \in Whole200

\* C15: when an engine reports success on a request, and when fetch has
\* returned SUCCESS or WAYBACK_SUCCESS, the file at output_path exists and is
\* not empty.
C15_SuccessNonEmpty ==
    /\ \A i \in DOMAIN log : log[i].ok => (file.exists /\ file.nonempty)
    /\ (pc = "done" /\ result.status \in Successes) => (file.exists /\ file.nonempty)

\* C16: when an engine reports success on a request, the file at
\* output_path was written, whole, by that request: neither a file that was
\* there before the fetch nor what an earlier failed attempt left makes an
\* engine that wrote nothing report success.
C16_WrittenBySuccess ==
    /\ \A i \in DOMAIN log : log[i].ok => (file.by = i /\ file.complete)
    /\ (pc = "done" /\ result.status \in Successes) =>
          (log # <<>> /\ file.by = Len(log) /\ file.complete)

\* the availability lookup was sent
LookedUp == \E i \in DOMAIN log : log[i].engine = "lookup"

\* _try_curl was called on the pattern URL
PatternTried ==
    \E i \in DOMAIN tried :
        /\ tried[i].stage = "wb_pattern"
        /\ tried[i].engine = "curl"
        /\ tried[i].url = WaybackPattern(url)

\* C17: when _try_wayback has returned after an availability lookup that
\* named no snapshot (it was answered by another status than 200 or by a
\* malformed body, or the request raised), the pattern URL was built and a
\* transport engine was called on it.
C17_PatternAfterFailedLookup ==
    (wb_ret.returned /\ LookedUp /\ snapshot_url = None) => PatternTried

\* C18: when _try_wayback returns failure after the fetch of the pattern
\* URL failed, the archive URL it returns, and the wayback_url of the
\* FAILED_MIRROR result, is the snapshot URL the availability lookup named
\* if it named one, and the pattern URL otherwise.
C18_SnapshotUrlOnFailure ==
    (wb_ret.returned /\ ~wb_ret.success /\ PatternTried) =>
        /\ wb_ret.url = (IF snapshot_url # None THEN snapshot_url ELSE WaybackPattern(url))
        /\ pc = "done" => result.wayback_url = wb_ret.url

\* C19: every request of a fetch, the availability lookup included, was
\* sent right after a _rate_limit call for the domain of the request's own
\* URL, and that domain's entry of last_request_time was set by then.
C19_EveryRequestThrottled ==
    \A i \in DOMAIN log :
        /\ log[i].domain = Netloc(log[i].url)
        /\ Netloc(log[i].url) \in DOMAIN last_request_time

\* C20: within one fetch no engine is called twice on the same URL in the
\* direct and mirror stages, and no mirror an engine is called on is the
\* input URL.
C20_NoRetries ==
    /\ \A i, j \in DOMAIN tried :
          (/\ i < j
           /\ tried[i].stage \in {"direct", "mirror"}
           /\ tried[j].stage \in {"direct", "mirror"}
           /\ tried[i].engine = tried[j].engine) => tried[i].url # tried[j].url
    /\ \A i \in DOMAIN tried : tried[i].stage = "mirror" => tried[i].url # url

\* the engine calls of the mirror stage, in order
MirrorTried == SelectSeq(tried, LAMBDA t : t.stage = "mirror")

\* C21: the mirrors fetch tries are the first three candidates the
\* generator returns, in its order; the engine calls of the mirror stage
\* are, mirror after mirror, the in-process engine and then curl, never
\* wget; attempted_urls holds the input URL and the mirrors taken so far and
\* nothing else, at most four elements.
C21_MirrorCap ==
    pc # "idle" =>
        /\ Len(mirrors) <= MirrorLimit
        /\ mirrors # <<>> =>
              /\ ~UrlparseRaises(url)
              /\ IsPrefix(mirrors, _generate_mirror_urls(url))
              /\ Len(mirrors) = MirrorLimit \/ mirrors = _generate_mirror_urls(url)
        /\ Len(MirrorTried) <= 2 * Len(mirrors)
        /\ \A k \in DOMAIN MirrorTried :
              /\ MirrorTried[k].url = mirrors[(k + 1) \div 2]
              /\ MirrorTried[k].engine = MirrorEngines[2 - (k % 2)]
        /\ \A i \in DOMAIN log : log[i].stage = "mirror" => log[i].engine \in {"requests", "curl"}
        /\ attempted_urls = <<url>> \o SubSeq(mirrors, 1, mi)
        /\ Len(attempted_urls) <= 1 + MirrorLimit

C21_Witness ==
    /\ pc = "done"
    /\ Len(_generate_mirror_urls(url)) > MirrorLimit
    /\ Len(MirrorTried) = 2 * MirrorLimit
    /\ Len(attempted_urls) = 1 + MirrorLimit
    /\ \E i \in DOMAIN log : log[i].stage = "mirror" /\ log[i].engine = "curl"

\* the engine whose call is running lacks its dependency
Unavailable ==
    \/ EngineAt = "requests" /\ ~HAS_REQUESTS
    \/ EngineAt = "curl" /\ ~has_curl
    \/ EngineAt = "wget" /\ ~has_wget

\* C22: the call of an engine whose dependency is missing returns failure
\* with the detail "<name> not available" in one step that sends no request,
\* calls no _rate_limit, leaves the clock, last_request_time and the file as
\* they are, and fetch goes on to the next engine of the loop or, after the
\* last, to the next mirror or strategy.
C22_UnavailableEngine ==
    [][Unavailable =>
         /\ tried' = Append(tried, [engine |-> EngineAt, url |-> Target, stage |-> pc,
                                    success |-> FALSE])
         /\ engine_detail' = (CASE EngineAt = "requests" -> <<"requests not available">>
                                 [] EngineAt = "curl" -> <<"curl not available">>
                                 [] EngineAt = "wget" -> <<"wget not available">>)
         /\ UNCHANGED <<log, responses, now, last_request_time, rl, file>>
         /\ CASE pc = "direct" /\ eng < Len(DirectEngines) ->
                    pc' = "direct" /\ eng' = eng + 1 /\ cur' = url
              [] pc = "direct" /\ eng = Len(DirectEngines) ->
                    pc' \in {"mirror", "wb_lookup", "done", "raised"}
              [] pc = "mirror" /\ eng < Len(MirrorEngines) ->
                    pc' = "mirror" /\ eng' = eng + 1 /\ mi' = mi /\ cur' = mirrors[mi]
              [] pc = "mirror" /\ eng = Len(MirrorEngines) /\ mi < Len(mirrors) ->
                    pc' = "mirror" /\ eng' = 1 /\ mi' = mi + 1
              [] pc = "mirror" /\ eng = Len(MirrorEngines) /\ mi = Len(mirrors) ->
                    pc' \in {"wb_lookup", "done"}
              [] pc = "wb_snapshot" -> pc' = "wb_pattern"
              [] pc = "wb_pattern" -> pc' = "done"
         /\ pc' = "done" => result'.status \in {FAILED_NETWORK, FAILED_MIRROR}
      ]_vars

C22_Witness ==
    /\ pc = "direct" /\ eng = 3
    /\ ~has_curl /\ HAS_REQUESTS
    /\ Len(tried) = 2
    /\ tried[2].engine = "curl" /\ ~tried[2].success
    /\ engine_detail = <<"curl not available">>
    /\ Len(log) = 1
    /\ rl.domain = Netloc(url)

\* how many /abs/ segments u holds, overlapping ones counted
AbsCount(u) ==
    Cardinality({i \in 1..(Len(u) - 2) : SubSeq(u, i, i + 2) = <<"/", "abs", "/">>})

\* how many rewrites are left for u: the suffix rule if u does not end with
\* ".pdf", and one per /abs/ segment
Rewrites(u) == (IF EndsWith(u, <<".pdf">>) THEN 0 ELSE 1) + AbsCount(u)

\* C23: the chain of derived URLs one _try_requests call requests is finite:
\* a derived URL ends with ".pdf", so that the suffix rule fires at most
\* once, each recursive call is on a URL with fewer rewrites left (the /pdf/
\* rule removes an /abs/ segment), and the recursion is no deeper than the
\* rewrites the input URL allows.
C23_ChainFinite ==
    /\ [](pc = "direct" =>
             /\ depth <= Rewrites(url)
             /\ depth + Rewrites(cur) <= Rewrites(url)
             /\ depth >= 1 => EndsWith(cur, <<".pdf">>))
    /\ [][(pc = "direct" /\ depth' > depth) =>
             /\ depth' = depth + 1
             /\ Rewrites(cur') < Rewrites(cur)
             /\ Len(log') = Len(log) + 1
             /\ responses'[Len(responses')] \in {"403", "404"}]_vars
    /\ [][(pc = "direct" /\ eng = 1 /\ depth' <= depth) =>
             (Len(tried') = 1 \/ pc' = "raised")]_vars

C23_Witness ==
    /\ AbsCount(url) = 2
    /\ Len(tried) = 1 /\ ~tried[1].success
    /\ Len(log) = 4
    /\ log[4].url = <<"https://", "arxiv.org", "/", "pdf", "/", "pdf", "/", "2301.00001",
                      ".pdf", ".pdf", ".pdf">>
    /\ responses \in {<<"403", "404", "403", "404">>}

\* the distance of two times
Apart(a, b) == IF a >= b THEN a - b ELSE b - a

\* the domain's entry of last_request_time as a call reads it, -1 for none
Stored ==
    IF ThreadDomain \in DOMAIN last_request_time THEN last_request_time[ThreadDomain]
    ELSE -1

\* C24: as long as no two _rate_limit calls of different threads ran at
\* the same time (which is what a per-domain critical section enforces), a
\* running call holds the current entry of its domain, not a stale one, and
\* the threads' last calls returned at least rate_limit_delay apart; with
\* or without overlap a call returns at least rate_limit_delay after the
\* entry it read.  The race the claim describes is the witness: it is
\* reached by overlapping calls only.
C24_CriticalSection ==
    /\ ~overlapped =>
          /\ \A t1, t2 \in Threads :
                (t1 # t2 /\ thread[t1].release # -1 /\ thread[t2].release # -1) =>
                    Apart(thread[t1].release, thread[t2].release) >= rate_limit_delay
          /\ \A t \in Threads : thread[t].pc # "idle" => thread[t].prev = Stored
          /\ \A t1, t2 \in Threads :
                (thread[t1].pc # "idle" /\ thread[t2].pc # "idle") => t1 = t2
    /\ \A t \in Threads :
          (thread[t].pc = "idle" /\ thread[t].prev # -1) =>
              thread[t].release - thread[t].prev >= rate_limit_delay

C24_Witness ==
    /\ overlapped
    /\ \A t \in Threads : thread[t].pc = "idle" /\ thread[t].release # -1
    /\ thread["t1"].prev # -1
    /\ thread["t1"].prev = thread["t2"].prev
    /\ thread["t1"].entry = thread["t2"].entry
    /\ thread["t1"].wake > thread["t1"].entry
    /\ Apart(thread["t1"].release, thread["t2"].release) < rate_limit_delay

\* C25: last_request_time is empty at construction; a step removes no key,
\* lowers no timestamp, adds no key but the domain of the _rate_limit call
\* it makes and changes no other domain's entry; and when a _rate_limit
\* call returns, having slept or not, the entry of its domain is the time
\* of its return.
C25_RateState ==
    /\ DOMAIN last_request_time = {}
    /\ [][/\ DOMAIN last_request_time \subseteq DOMAIN last_request_time'
          /\ \A d \in DOMAIN last_request_time :
                /\ last_request_time'[d] >= last_request_time[d]
                /\ d # rl'.domain => last_request_time'[d] = last_request_time[d]
          /\ (DOMAIN last_request_time') \ (DOMAIN last_request_time) \subseteq {rl'.domain}
          /\ (rl' # rl \/ now' # now) =>
                /\ rl'.domain \in DOMAIN last_request_time'
                /\ last_request_time'[rl'.domain] = now'
                /\ rl'.release = now'
                /\ rl'.prev = (IF rl'.domain \in DOMAIN last_request_time
                               THEN last_request_time[rl'.domain] ELSE -1)
         ]_vars

C25_Witness ==
    /\ Cardinality(DOMAIN last_request_time) = 3
    /\ rl.prev # -1
    /\ rl.slept = 0
    /\ rl.release > rl.prev
    /\ last_request_time[rl.domain] = rl.release
    /\ \E d \in DOMAIN last_request_time : last_request_time[d] < rl.prev

====
